---------------------------- MODULE Spec2Model ----------------------------
(***************************************************************************)
(* census-data-downloader: BaseDownloader (base.py) and the mobility table *)
(* configurations (tables/mobility.py).                                    *)
(*                                                                         *)
(* Python values are modelled as records [t, n, s, items]:                 *)
(*   t = "none"  None                                                      *)
(*   t = "int"   the integer n                                             *)
(*   t = "str"   the string whose characters are the sequence s            *)
(*   t = "list"  the list whose elements are the sequence items            *)
(* A filesystem path is the sequence of its components.                    *)
(***************************************************************************)
EXTENDS Integers, Sequences, FiniteSets, TLC

VARIABLES
    env,                \* os.environ["CENSUS_API_KEY"] (PyNone when unset)
    GEO_LIST,           \* the (sub)class attribute GEO_LIST
    fs,                 \* the directories that exist
    fs0,                \* the directories that existed when the running method was entered
    pc,                 \* position of the caller / of the running method
    api_key,            \* __init__ argument
    years,              \* __init__ argument
    data_dir_arg,       \* __init__ argument data_dir
    CENSUS_API_KEY,     \* self.CENSUS_API_KEY
    years_to_download,  \* self.years_to_download
    data_dir,           \* self.data_dir
    set_attrs,          \* names of the attributes assigned on self so far
    geo_i,              \* index of download_everything's loop over GEO_LIST
    year_i,             \* index of a geography routine's loop over the years
    log,                \* routine invocations and fetches, in order
    error,              \* the exception that reached the caller
    constructions,      \* number of BaseDownloader(...) calls so far
    TABLE_REGISTRY,     \* processed table name -> registered table config
    last_register,      \* the latest register call: its config and outcome
    accepted            \* the configs whose register call succeeded

vars == <<env, GEO_LIST, fs, fs0, pc, api_key, years, data_dir_arg,
          CENSUS_API_KEY, years_to_download, data_dir, set_attrs,
          geo_i, year_i, log, error, constructions,
          TABLE_REGISTRY, last_register, accepted>>

downloaderVars == <<env, GEO_LIST, fs, fs0, pc, api_key, years, data_dir_arg,
                    CENSUS_API_KEY, years_to_download, data_dir, set_attrs,
                    geo_i, year_i, log, error, constructions>>

registryVars == <<TABLE_REGISTRY, last_register, accepted>>

----------------------------------------------------------------------------
(* Bounds of the model *)

\* longest list passed as the years argument
MaxListLen == 2
\* number of BaseDownloader(...) constructions in one behaviour
MaxConstructions == 2
\* a subclass GEO_LIST carries its unimplemented entry at index 1..MaxBadPos
MaxBadPos == 3

----------------------------------------------------------------------------
(* Python values *)

PyNone == [t |-> "none", n |-> 0, s |-> <<>>, items |-> <<>>]
PyInt(i) == [t |-> "int", n |-> i, s |-> <<>>, items |-> <<>>]
PyStr(chars) == [t |-> "str", n |-> 0, s |-> chars, items |-> <<>>]
PyList(xs) == [t |-> "list", n |-> 0, s |-> <<>>, items |-> xs]

\* Python truthiness, as used by `not x` and `if x:`
Truthy(v) ==
    CASE v.t = "none" -> FALSE
      [] v.t = "int"  -> v.n # 0
      [] v.t = "str"  -> Len(v.s) > 0
      [] v.t = "list" -> Len(v.items) > 0

DigitVal(c) ==
    CASE c = "0" -> 0 [] c = "1" -> 1 [] c = "2" -> 2 [] c = "3" -> 3
      [] c = "4" -> 4 [] c = "5" -> 5 [] c = "6" -> 6 [] c = "7" -> 7
      [] c = "8" -> 8 [] c = "9" -> 9

RECURSIVE ParseDigits(_, _)
ParseDigits(chars, acc) ==
    IF chars = <<>> THEN acc
    ELSE ParseDigits(Tail(chars), acc * 10 + DigitVal(Head(chars)))

\* int(v) for an int or a string of decimal digits
ToInt(v) == IF v.t = "int" THEN v.n ELSE ParseDigits(v.s, 0)

RECURSIVE MapInt(_)
MapInt(xs) == IF xs = <<>> THEN <<>> ELSE <<ToInt(Head(xs))>> \o MapInt(Tail(xs))

\* os.getenv(name, default): the variable's value when set, else the default
GetEnv(envValue, default) ==
    IF envValue.t = "none" THEN default ELSE envValue

RECURSIVE SeqMax(_)
SeqMax(xs) ==
    IF Len(xs) = 1 THEN xs[1]
    ELSE LET m == SeqMax(Tail(xs)) IN IF xs[1] > m THEN xs[1] ELSE m

Range(xs) == {xs[i] : i \in 1..Len(xs)}


\* pathlib.Path(str(v)) for a string v: the components between "/"
RECURSIVE SplitPath(_, _)
SplitPath(chars, cur) ==
    IF chars = <<>> THEN (IF cur = <<>> THEN <<>> ELSE <<cur>>)
    ELSE IF Head(chars) = "/"
         THEN (IF cur = <<>> THEN <<>> ELSE <<cur>>) \o SplitPath(Tail(chars), <<>>)
         ELSE SplitPath(Tail(chars), Append(cur, Head(chars)))

\* path.joinpath(name)
JoinPath(path, name) == Append(path, name)

Parent(path) == SubSeq(path, 1, Len(path) - 1)

----------------------------------------------------------------------------
(* Class attributes of BaseDownloader *)

YEAR_LIST == <<2017, 2016, 2015, 2014, 2013, 2012, 2011, 2010, 2009>>

DefaultGeoList ==
    <<"nationwide", "states", "congressional_districts", "counties", "places",
      "urban_areas", "msas", "csas", "pumas", "aiannh_homelands", "zctas",
      "state_legislative_upper_districts",
      "state_legislative_lower_districts", "tracts">>

\* the geographies g for which BaseDownloader defines a method download_<g>
RoutineNames ==
    {"nationwide", "states", "congressional_districts", "counties", "places",
     "tracts", "state_legislative_upper_districts",
     "state_legislative_lower_districts", "urban_areas", "msas", "csas",
     "pumas", "aiannh_homelands", "zctas"}

\* THIS_DIR = pathlib.Path(__file__).parent: the package directory
THIS_DIR == << <<"c","e","n","s","u","s","_","d","a","t","a","_","d","o","w","n","l","o","a","d","e","r">> >>

Chars_data == <<"d","a","t","a">>
Chars_raw == <<"r","a","w">>
Chars_processed == <<"p","r","o","c","e","s","s","e","d">>
Chars_all == <<"a","l","l">>

----------------------------------------------------------------------------
(* Exceptions *)

NoError == [type |-> "", about |-> "", name |-> ""]
Raise(type, about, name) == [type |-> type, about |-> about, name |-> name]

----------------------------------------------------------------------------
(* Inputs *)

ApiKeyArgs == {PyNone, PyStr(<<>>), PyStr(<<"A">>)}
EnvValues == {PyNone, PyStr(<<>>), PyStr(<<"E">>)}

\* elements of a years list: supported and unsupported years, as int or str
YearElems == {PyInt(2017), PyInt(2009), PyInt(2018), PyStr(<<"2","0","1","6">>)}

SeqsUpTo(S, k) == UNION {[1..m -> S] : m \in 0..k}

YearsArgs ==
    {PyNone, PyStr(Chars_all), PyStr(<<"2","0","1","7">>)}
    \cup {PyInt(y) : y \in {2008, 2009, 2017, 2018}}
    \cup {PyList(xs) : xs \in SeqsUpTo(YearElems, MaxListLen)}

DataDirArgs == {PyNone, PyStr(<<>>), PyStr(<<"d">>), PyStr(<<"p","/","d">>)}

\* the directories that exist whatever the run does: the working directory
\* and the package directory
BaseTree == {<<>>, THIS_DIR}

InitialTrees ==
    {BaseTree,
     BaseTree \cup {<< <<"d">> >>},
     BaseTree \cup {<< <<"d">> >>, << <<"d">>, Chars_raw >>}}

\* GEO_LIST of BaseDownloader, and of subclasses that declare a geography
\* "blocks" with no download_blocks routine at index k
InsertAt(xs, k, x) == SubSeq(xs, 1, k - 1) \o <<x>> \o SubSeq(xs, k, Len(xs))

GeoLists ==
    {DefaultGeoList}
    \cup {InsertAt(DefaultGeoList, k, "blocks") : k \in 1..MaxBadPos}
    \cup {Append(DefaultGeoList, "blocks")}

----------------------------------------------------------------------------
(* BaseDownloader.__init__ *)

\* the API key check: `if not self.CENSUS_API_KEY: raise`
KeyMissing_NeverRaises(key) == FALSE
KeyMissing(key) == ~Truthy(key)

\* the if/elif chain over the four forms of years; no branch assigns
\* years_to_download for any other value
ResolveYears_NoneIsAll(y) ==
    IF y.t = "none" THEN [assigned |-> TRUE, value |-> YEAR_LIST]
    ELSE IF y.t = "int" THEN [assigned |-> TRUE, value |-> <<y.n>>]
    ELSE IF y.t = "list" THEN [assigned |-> TRUE, value |-> MapInt(y.items)]
    ELSE IF y = PyStr(Chars_all) THEN [assigned |-> TRUE, value |-> YEAR_LIST]
    ELSE [assigned |-> FALSE, value |-> <<>>]
ResolveYears(y) ==
    IF y = PyStr(Chars_all) THEN [assigned |-> TRUE, value |-> YEAR_LIST]
    ELSE IF y.t = "int" THEN [assigned |-> TRUE, value |-> <<y.n>>]
    ELSE IF y.t = "list" THEN [assigned |-> TRUE, value |-> MapInt(y.items)]
    ELSE IF y.t = "none" THEN [assigned |-> TRUE, value |-> <<SeqMax(YEAR_LIST)>>]
    ELSE [assigned |-> FALSE, value |-> <<>>]

\* the validation loop: some year of ytd is not in YEAR_LIST
HasInvalidYear_FirstOnly(ytd) ==
    ytd # <<>> /\ ytd[1] \notin Range(YEAR_LIST)
HasInvalidYear(ytd) ==
    \E i \in 1..Len(ytd) : ytd[i] \notin Range(YEAR_LIST)

\* the base directory: pathlib.Path(str(data_dir)) or THIS_DIR/"data"
BaseDir(d) ==
    IF Truthy(d) THEN SplitPath(d.s, <<>>) ELSE JoinPath(THIS_DIR, Chars_data)

\* `if not p.exists(): p.mkdir()`; mkdir fails when p's parent is absent
\* (Path.mkdir defaults to parents=False)
MkdirIfAbsent(st, p) ==
    IF st.err # NoError \/ p \in st.tree THEN st
    ELSE IF Parent(p) \notin st.tree
         THEN [st EXCEPT !.err = Raise("FileNotFoundError", "mkdir", "")]
         ELSE [st EXCEPT !.tree = @ \cup {p}]

\* the three existence checks and mkdirs, in source order
MakeDirs_BaseOnly(tree, base) ==
    MkdirIfAbsent([tree |-> tree, err |-> NoError], base)
MakeDirs(tree, base) ==
    MkdirIfAbsent(
        MkdirIfAbsent(
            MkdirIfAbsent([tree |-> tree, err |-> NoError], base),
            JoinPath(base, Chars_raw)),
        JoinPath(base, Chars_processed))

\* The caller is between calls and no download_everything run has started
\* on the current object.  Construct resets everything a run changes (pc,
\* geo_i, year_i, log, error), so constructing after a run leads to the
\* states that constructing before it leads to.
Idle == pc \in {"idle", "ready"} \/ (pc = "failed" /\ geo_i = 0)

\* The caller evaluates BaseDownloader(api_key=..., years=..., data_dir=...)
\* on a new object.  The value of each argument is drawn where __init__
\* first reads it (InitKey, InitYears, InitDirs); until then the variable
\* holds None.
Construct ==
    /\ Idle
    /\ constructions < MaxConstructions
    /\ constructions' = constructions + 1
    /\ api_key' = PyNone
    /\ years' = PyNone
    /\ data_dir_arg' = PyNone
    /\ fs0' = fs
    /\ CENSUS_API_KEY' = PyNone
    /\ years_to_download' = <<>>
    /\ data_dir' = <<>>
    /\ set_attrs' = {}
    /\ geo_i' = 0
    /\ year_i' = 0
    /\ log' = <<>>
    /\ error' = NoError
    /\ pc' = "init_key"
    /\ UNCHANGED <<env, GEO_LIST, fs, registryVars>>

\* lines 58-62
InitKey ==
    /\ pc = "init_key"
    /\ api_key' \in ApiKeyArgs
    /\ CENSUS_API_KEY' = GetEnv(env, api_key')
    /\ set_attrs' = set_attrs \cup {"CENSUS_API_KEY"}
    /\ IF KeyMissing(CENSUS_API_KEY')
       THEN /\ error' = Raise("NotImplementedError", "api_key", "")
            /\ pc' = "failed"
       ELSE /\ error' = error
            /\ pc' = "init_years"
    /\ UNCHANGED <<env, GEO_LIST, fs, fs0, years, data_dir_arg,
                   years_to_download, data_dir, geo_i, year_i, log,
                   constructions, registryVars>>

\* lines 68-79
InitYears ==
    /\ pc = "init_years"
    /\ years' \in YearsArgs
    /\ LET r == ResolveYears(years') IN
         /\ years_to_download' = r.value
         /\ set_attrs' = IF r.assigned
                         THEN set_attrs \cup {"years_to_download"}
                         ELSE set_attrs
    /\ pc' = "init_validate"
    /\ UNCHANGED <<env, GEO_LIST, fs, fs0, api_key, data_dir_arg,
                   CENSUS_API_KEY, data_dir, geo_i, year_i, log, error,
                   constructions, registryVars>>

\* lines 81-86
InitValidate ==
    /\ pc = "init_validate"
    /\ IF "years_to_download" \notin set_attrs
       THEN /\ error' = Raise("AttributeError", "years_to_download", "")
            /\ pc' = "failed"
       ELSE IF HasInvalidYear(years_to_download)
       THEN /\ error' = Raise("NotImplementedError", "years", "")
            /\ pc' = "failed"
       ELSE /\ error' = error
            /\ pc' = "init_dirs"
    /\ UNCHANGED <<env, GEO_LIST, fs, fs0, api_key, years, data_dir_arg,
                   CENSUS_API_KEY, years_to_download, data_dir, set_attrs,
                   geo_i, year_i, log, constructions, registryVars>>

\* lines 88-102
InitDirs ==
    /\ pc = "init_dirs"
    /\ data_dir_arg' \in DataDirArgs
    /\ data_dir' = BaseDir(data_dir_arg')
    /\ set_attrs' = set_attrs \cup {"data_dir", "raw_data_dir", "processed_data_dir"}
    /\ LET st == MakeDirs(fs, data_dir') IN
         /\ fs' = st.tree
         /\ error' = st.err
         /\ pc' = IF st.err = NoError THEN "ready" ELSE "failed"
    /\ UNCHANGED <<env, GEO_LIST, fs0, api_key, years,
                   CENSUS_API_KEY, years_to_download, geo_i, year_i, log,
                   constructions, registryVars>>

----------------------------------------------------------------------------
(* download_everything and the per-geography routines *)

CallEntry(geo) == [ev |-> "call", geo |-> geo, year |-> 0]
FetchEntry(geo, year) == [ev |-> "fetch", geo |-> geo, year |-> year]

\* exceptions a fetch can raise
FetchErrors == {"HTTPError", "OSError"}

\* dl = getattr(self, f"download_{geo}", None); `not dl or not callable(dl)`
HasRoutine_Always(geo) == TRUE
HasRoutine(geo) == geo \in RoutineNames

\* download_everything has no try/except around dl(): what the caller sees
\* of an exception exc raised inside dl()
PropagateFromEverything(exc) == exc

\* the caller evaluates obj.download_everything(); __init__'s arguments are
\* out of scope by now
DownloadEverything_FromSecond ==
    /\ pc = "ready"
    /\ pc' = "download_everything"
    /\ geo_i' = 2
    /\ api_key' = PyNone
    /\ years' = PyNone
    /\ data_dir_arg' = PyNone
    /\ fs0' = fs
    /\ UNCHANGED <<env, GEO_LIST, fs, CENSUS_API_KEY, years_to_download,
                   data_dir, set_attrs, year_i, log, error, constructions,
                   registryVars>>
DownloadEverything ==
    /\ pc = "ready"
    /\ pc' = "download_everything"
    /\ geo_i' = 1
    /\ api_key' = PyNone
    /\ years' = PyNone
    /\ data_dir_arg' = PyNone
    /\ fs0' = fs
    /\ UNCHANGED <<env, GEO_LIST, fs, CENSUS_API_KEY, years_to_download,
                   data_dir, set_attrs, year_i, log, error, constructions,
                   registryVars>>

\* one iteration of `for geo in self.GEO_LIST` up to the call dl(), or the
\* end of the loop
EverythingStep ==
    /\ pc = "download_everything"
    /\ IF geo_i > Len(GEO_LIST)
       THEN /\ pc' = "done"
            /\ UNCHANGED <<year_i, log, error>>
       ELSE IF ~HasRoutine(GEO_LIST[geo_i])
       THEN /\ pc' = "failed"
            /\ error' = Raise("NotImplementedError", "geography", GEO_LIST[geo_i])
            /\ UNCHANGED <<year_i, log>>
       ELSE /\ pc' = "routine"
            /\ year_i' = 1
            /\ log' = Append(log, CallEntry(GEO_LIST[geo_i]))
            /\ error' = error
    /\ UNCHANGED <<env, GEO_LIST, fs, fs0, api_key, years, data_dir_arg,
                   CENSUS_API_KEY, years_to_download, data_dir, set_attrs,
                   geo_i, constructions, registryVars>>

\* the routine's loop over years_to_download: the fetch of one year succeeds
FetchYear ==
    /\ pc = "routine"
    /\ year_i <= Len(years_to_download)
    /\ log' = Append(log, FetchEntry(GEO_LIST[geo_i], years_to_download[year_i]))
    /\ year_i' = year_i + 1
    /\ UNCHANGED <<env, GEO_LIST, fs, fs0, pc, api_key, years, data_dir_arg,
                   CENSUS_API_KEY, years_to_download, data_dir, set_attrs,
                   geo_i, error, constructions, registryVars>>

\* the fetch of one year raises: the exception leaves the routine and then
\* download_everything
FetchYearFails_Swallowed ==
    /\ pc = "routine"
    /\ year_i <= Len(years_to_download)
    /\ \E e \in FetchErrors :
         error' = Raise(e, "fetch", GEO_LIST[geo_i])
    /\ year_i' = year_i + 1
    /\ UNCHANGED <<env, GEO_LIST, fs, fs0, pc, api_key, years, data_dir_arg,
                   CENSUS_API_KEY, years_to_download, data_dir, set_attrs,
                   geo_i, log, constructions, registryVars>>
FetchYearFails ==
    /\ pc = "routine"
    /\ year_i <= Len(years_to_download)
    /\ \E e \in FetchErrors :
         error' = PropagateFromEverything(Raise(e, "fetch", GEO_LIST[geo_i]))
    /\ pc' = "failed"
    /\ UNCHANGED <<env, GEO_LIST, fs, fs0, api_key, years, data_dir_arg,
                   CENSUS_API_KEY, years_to_download, data_dir, set_attrs,
                   geo_i, year_i, log, constructions, registryVars>>

\* the routine returns to download_everything's loop
RoutineReturn ==
    /\ pc = "routine"
    /\ year_i > Len(years_to_download)
    /\ pc' = "download_everything"
    /\ geo_i' = geo_i + 1
    /\ UNCHANGED <<env, GEO_LIST, fs, fs0, api_key, years, data_dir_arg,
                   CENSUS_API_KEY, years_to_download, data_dir, set_attrs,
                   year_i, log, error, constructions, registryVars>>

----------------------------------------------------------------------------
(* tables/mobility.py: the table config classes *)

MobilityClasses ==
    <<"MobilityDownloader", "MobilityBySexDownloader", "MobilityWhiteDownloader",
      "MobilityBlackDownloader", "MobilityAsianDownloader",
      "MobilityLatinoDownloader">>

\* the class each class statement names as its base
Base_BlackExtendsMobility(c) ==
    CASE c = "MobilityDownloader" -> "BaseTableConfig"
      [] c = "MobilityBySexDownloader" -> "MobilityDownloader"
      [] c = "MobilityWhiteDownloader" -> "BaseTableConfig"
      [] c = "MobilityBlackDownloader" -> "MobilityDownloader"
      [] c = "MobilityAsianDownloader" -> "MobilityWhiteDownloader"
      [] c = "MobilityLatinoDownloader" -> "MobilityWhiteDownloader"
Base(c) ==
    CASE c = "MobilityDownloader" -> "BaseTableConfig"
      [] c = "MobilityBySexDownloader" -> "MobilityDownloader"
      [] c = "MobilityWhiteDownloader" -> "BaseTableConfig"
      [] c = "MobilityBlackDownloader" -> "MobilityWhiteDownloader"
      [] c = "MobilityAsianDownloader" -> "MobilityWhiteDownloader"
      [] c = "MobilityLatinoDownloader" -> "MobilityWhiteDownloader"

\* The attributes each class body assigns.  A crosswalk (an OrderedDict
\* built from a dict literal) is the sequence of its <<key, value>> items in
\* insertion order.
MobilityDownloader ==
    [PROCESSED_TABLE_NAME |-> "mobility",
     UNIVERSE |-> "population 1 year and over",
     RAW_TABLE_NAME |-> "B07003",
     RAW_FIELD_CROSSWALK |-> <<
         <<"001E", "universe">>,
         <<"004E", "same_house">>,
         <<"007E", "moved_within_county">>,
         <<"010E", "moved_from_different_county_in_same_state">>,
         <<"013E", "moved_from_different_state">>,
         <<"016E", "moved_from_abroad">> >>]

MobilityBySexDownloader ==
    [PROCESSED_TABLE_NAME |-> "mobilitybysex",
     RAW_FIELD_CROSSWALK |-> <<
         <<"001E", "universe">>,
         <<"002E", "male_total">>,
         <<"003E", "female_total">>,
         <<"004E", "total_same_house">>,
         <<"005E", "male_same_house">>,
         <<"006E", "female_same_house">>,
         <<"007E", "total_moved_within_county">>,
         <<"008E", "male_moved_within_county">>,
         <<"009E", "female_moved_within_county">>,
         <<"010E", "total_moved_from_different_county_in_same_state">>,
         <<"011E", "male_moved_from_different_county_in_same_state">>,
         <<"012E", "female_moved_from_different_county_in_same_state">>,
         <<"013E", "total_moved_from_different_state">>,
         <<"014E", "male_moved_from_different_state">>,
         <<"015E", "female_moved_from_different_state">>,
         <<"016E", "total_moved_from_abroad">>,
         <<"017E", "male_moved_from_abroad">>,
         <<"018E", "female_moved_from_abroad">> >>]

MobilityWhiteDownloader ==
    [PROCESSED_TABLE_NAME |-> "mobilitywhite",
     UNIVERSE |-> "population 1 year and over",
     RAW_TABLE_NAME |-> "B07004H",
     RAW_FIELD_CROSSWALK |-> <<
         <<"001E", "universe">>,
         <<"002E", "same_house">>,
         <<"003E", "moved_within_county">>,
         <<"004E", "moved_from_different_county_in_same_state">>,
         <<"005E", "moved_from_different_state">>,
         <<"006E", "moved_from_abroad">> >>]

MobilityBlackDownloader_NameNotOverridden ==
    [RAW_TABLE_NAME |-> "B07004B"]
MobilityBlackDownloader ==
    [PROCESSED_TABLE_NAME |-> "mobilityblack",
     RAW_TABLE_NAME |-> "B07004B"]

MobilityAsianDownloader ==
    [PROCESSED_TABLE_NAME |-> "mobilityasian",
     RAW_TABLE_NAME |-> "B07004D"]

MobilityLatinoDownloader ==
    [PROCESSED_TABLE_NAME |-> "mobilitylatino",
     RAW_TABLE_NAME |-> "B07004I"]

OwnAttrs(c) ==
    CASE c = "MobilityDownloader" -> MobilityDownloader
      [] c = "MobilityBySexDownloader" -> MobilityBySexDownloader
      [] c = "MobilityWhiteDownloader" -> MobilityWhiteDownloader
      [] c = "MobilityBlackDownloader" -> MobilityBlackDownloader
      [] c = "MobilityAsianDownloader" -> MobilityAsianDownloader
      [] c = "MobilityLatinoDownloader" -> MobilityLatinoDownloader

\* Python's attribute lookup on a class: the class body's own assignment,
\* else the base class's attribute
RECURSIVE GetAttr(_, _)
GetAttr(c, a) ==
    IF a \in DOMAIN OwnAttrs(c) THEN OwnAttrs(c)[a] ELSE GetAttr(Base(c), a)

\* the declarative record a config class resolves to
TableConfig(c) ==
    [processed_table_name |-> GetAttr(c, "PROCESSED_TABLE_NAME"),
     raw_table_name |-> GetAttr(c, "RAW_TABLE_NAME"),
     universe |-> GetAttr(c, "UNIVERSE"),
     field_crosswalk |-> GetAttr(c, "RAW_FIELD_CROSSWALK")]

----------------------------------------------------------------------------
(* The table registry *)

EmptyRegistry == <<>>

\* a config that is not one of the module's: it reuses the name "mobility"
ClashingConfigs ==
    {[TableConfig("MobilityDownloader") EXCEPT !.raw_table_name = "B07003_2010",
                                               !.universe = "households"]}

\* register: a new key is added, an existing key is an error
RegistryAfter_Overwrites(registry, config) ==
    (config.processed_table_name :> config) @@ registry
RegistryAfter(registry, config) ==
    IF config.processed_table_name \in DOMAIN registry
    THEN registry
    ELSE (config.processed_table_name :> config) @@ registry

Register(config) ==
    /\ LET ok == config.processed_table_name \notin DOMAIN TABLE_REGISTRY IN
         /\ last_register' = [name |-> config.processed_table_name, ok |-> ok]
         /\ accepted' = IF ok THEN accepted \cup {config} ELSE accepted
    /\ TABLE_REGISTRY' = RegistryAfter(TABLE_REGISTRY, config)
    /\ UNCHANGED downloaderVars

\* resolve: the config stored under name, or a lookup error
Resolve(registry, name) ==
    IF name \in DOMAIN registry
    THEN [found |-> TRUE, config |-> registry[name]]
    ELSE [found |-> FALSE, config |-> <<>>]

\* the @register decorator applied to a class of tables/mobility.py
RegisterClass(c) == Register(TableConfig(c))

----------------------------------------------------------------------------
(* The downloader's specification *)

Init ==
    /\ env \in EnvValues
    /\ GEO_LIST \in GeoLists
    /\ fs \in InitialTrees
    /\ fs0 = fs
    /\ pc = "idle"
    /\ api_key = PyNone
    /\ years = PyNone
    /\ data_dir_arg = PyNone
    /\ CENSUS_API_KEY = PyNone
    /\ years_to_download = <<>>
    /\ data_dir = <<>>
    /\ set_attrs = {}
    /\ geo_i = 0
    /\ year_i = 0
    /\ log = <<>>
    /\ error = NoError
    /\ constructions = 0
    /\ TABLE_REGISTRY = EmptyRegistry
    /\ last_register = [name |-> "", ok |-> TRUE]
    /\ accepted = {}

Next ==
    \/ Construct
    \/ InitKey
    \/ InitYears
    \/ InitValidate
    \/ InitDirs
    \/ DownloadEverything
    \/ EverythingStep
    \/ FetchYear
    \/ FetchYearFails
    \/ RoutineReturn

Spec == Init /\ [][Next]_vars

----------------------------------------------------------------------------
(* The registry's specification: the downloader is not in use *)

InitRegistry ==
    /\ Init
    /\ env = PyNone
    /\ GEO_LIST = DefaultGeoList
    /\ fs = BaseTree

NextRegistry ==
    \/ \E i \in 1..Len(MobilityClasses) : RegisterClass(MobilityClasses[i])
    \/ \E config \in ClashingConfigs : Register(config)

SpecRegistry == InitRegistry /\ [][NextRegistry]_vars

----------------------------------------------------------------------------
(* Vocabulary of the properties *)

IsPrefix(a, b) == Len(a) <= Len(b) /\ SubSeq(b, 1, Len(a)) = a

\* one routine invocation per geography, each followed by one fetch per
\* year, geography by geography
ExpectedLog(geos, ytd) ==
    LET b == 1 + Len(ytd) IN
    [k \in 1..(Len(geos) * b) |->
        LET g == geos[((k - 1) \div b) + 1]
            off == (k - 1) % b
        IN IF off = 0 THEN CallEntry(g) ELSE FetchEntry(g, ytd[off])]

SupportedYears == 2009..2017

\* __init__ is running or has just returned or raised: its arguments are
\* still the ones it was called with
InInit ==
    \/ pc \in {"init_key", "init_years", "init_validate", "init_dirs", "ready"}
    \/ (pc = "failed" /\ geo_i = 0)

InDownload ==
    \/ pc \in {"download_everything", "routine", "done"}
    \/ (pc = "failed" /\ geo_i > 0)

\* the year a list element or an int argument stands for
YearOf(v) ==
    IF v.t = "int" THEN v.n
    ELSE IF v.s = <<"2","0","1","6">> THEN 2016
    ELSE IF v.s = <<"2","0","1","7">> THEN 2017
    ELSE 0

DataDirs(base) ==
    {base, JoinPath(base, Chars_raw), JoinPath(base, Chars_processed)}

ConfigurationError(about) == Raise("NotImplementedError", about, "")

----------------------------------------------------------------------------
(* C1 *)

\* C1 as stated: when download_everything raises the missing-routine error,
\* no geography routine has been invoked.
C1_NoRoutineBeforeGeographyError ==
    error.about = "geography" => log = <<>>

\* C1 as amended: download_everything on a GEO_LIST with an entry that has
\* no routine never completes; it raises NotImplementedError naming the
\* first such entry, and at that moment exactly the routines of the entries
\* before it have been invoked, once each and in order, with all their
\* fetches (so zero routines only when the entry is first).
C1_GeographyErrorAfterPrecedingRoutines ==
    /\ pc = "done" => \A i \in 1..Len(GEO_LIST) : GEO_LIST[i] \in RoutineNames
    /\ error.about = "geography" =>
         /\ pc = "failed"
         /\ error.type = "NotImplementedError"
         /\ \E j \in 1..Len(GEO_LIST) :
              /\ GEO_LIST[j] \notin RoutineNames
              /\ \A i \in 1..(j - 1) : GEO_LIST[i] \in RoutineNames
              /\ error.name = GEO_LIST[j]
              /\ log = ExpectedLog(SubSeq(GEO_LIST, 1, j - 1), years_to_download)

C1_Witness ==
    /\ error.about = "geography"
    /\ error.name = "blocks"
    /\ GEO_LIST[2] = "blocks"
    /\ Len(years_to_download) = 2
    /\ Len(log) = 3

----------------------------------------------------------------------------
(* C2 *)

\* C2: whenever a non-empty api_key argument is passed, the key check
\* passes and the stored key is that argument.
C2_ExplicitKeyTakesPrecedence ==
    (InInit /\ pc # "init_key" /\ Truthy(api_key)) =>
        /\ error # ConfigurationError("api_key")
        /\ CENSUS_API_KEY = api_key

----------------------------------------------------------------------------
(* C3 *)

\* C3: after the years are resolved, years_to_download is the nine
\* supported years in descending order for "all", [y] for an int y, the
\* list's elements converted to int in the given order for a list, and
\* [2017] for None.
C3_YearsResolution ==
    (InInit /\ pc \notin {"init_key", "init_years"}
            /\ error # ConfigurationError("api_key")) =>
        /\ years = PyStr(Chars_all) =>
             years_to_download = <<2017, 2016, 2015, 2014, 2013, 2012, 2011, 2010, 2009>>
        /\ years.t = "int" => years_to_download = <<years.n>>
        /\ years.t = "list" =>
             /\ Len(years_to_download) = Len(years.items)
             /\ \A i \in 1..Len(years.items) :
                  years_to_download[i] = YearOf(years.items[i])
        /\ years.t = "none" => years_to_download = <<2017>>

C3_Witness ==
    /\ pc = "ready"
    /\ years = PyList(<<PyStr(<<"2","0","1","6">>), PyInt(2017)>>)
    /\ years_to_download = <<2016, 2017>>

----------------------------------------------------------------------------
(* C4 *)

ContainsUnsupportedYear(y) ==
    \/ y.t = "int" /\ y.n \notin SupportedYears
    \/ y.t = "list" /\ \E i \in 1..Len(y.items) : YearOf(y.items[i]) \notin SupportedYears

\* C4: a years argument (int or list) with a year outside 2009-2017 never
\* gets past validation: construction ends in a configuration error; and
\* whenever validation has been passed every year of years_to_download is
\* a supported year.
C4_UnsupportedYearRejected ==
    /\ (InInit /\ ContainsUnsupportedYear(years)) =>
          \/ pc \in {"init_key", "init_years", "init_validate"}
          \/ /\ pc = "failed"
             /\ error \in {ConfigurationError("years"), ConfigurationError("api_key")}
    /\ (pc \in {"init_dirs", "ready"} \/ InDownload \/ error.about = "mkdir") =>
          \A i \in 1..Len(years_to_download) : years_to_download[i] \in SupportedYears

C4_Witness ==
    /\ pc = "failed"
    /\ error = ConfigurationError("years")
    /\ years = PyList(<<PyInt(2017), PyInt(2018)>>)

----------------------------------------------------------------------------
(* C5 *)

\* C5: with no api_key argument and CENSUS_API_KEY unset, construction
\* fails at the key check with a configuration error: years_to_download and
\* the directory attributes are never assigned and no directory is created.
C5_MissingKeyFailsFirst ==
    (InInit /\ pc # "init_key" /\ api_key = PyNone /\ env = PyNone) =>
        /\ pc = "failed"
        /\ error = ConfigurationError("api_key")
        /\ set_attrs = {"CENSUS_API_KEY"}
        /\ years_to_download = <<>>
        /\ fs = fs0

C5_Witness ==
    /\ pc = "failed"
    /\ error = ConfigurationError("api_key")
    /\ api_key = PyNone
    /\ env = PyNone
    /\ set_attrs = {"CENSUS_API_KEY"}
    /\ constructions = 2
    /\ fs = BaseTree

----------------------------------------------------------------------------
(* C6 *)

\* C6: on the default GEO_LIST download_everything never raises the
\* missing-routine error; what has been invoked and fetched so far is always
\* an initial part of "each geography in declared order, each followed by
\* one fetch per year in years_to_download order", and when every fetch has
\* succeeded it is all of it.
C6_OneFetchPerGeographyAndYear ==
    (InDownload /\ GEO_LIST = DefaultGeoList) =>
        /\ error.about # "geography"
        /\ Len(GEO_LIST) = 14
        /\ IsPrefix(log, ExpectedLog(DefaultGeoList, years_to_download))
        /\ pc = "done" => log = ExpectedLog(DefaultGeoList, years_to_download)
        /\ (pc = "routine") =>
             Len(log) = (geo_i - 1) * (1 + Len(years_to_download)) + year_i

C6_Witness ==
    /\ pc = "done"
    /\ GEO_LIST = DefaultGeoList
    /\ years_to_download = YEAR_LIST
    /\ Len(log) = 140
    /\ log[140] = FetchEntry("tracts", 2009)

----------------------------------------------------------------------------
(* C7 *)

ProcessedName(c) == TableConfig(c).processed_table_name

\* what every state of the registry satisfies
C7_RegistryState ==
    /\ \A config \in accepted :
         Resolve(TABLE_REGISTRY, config.processed_table_name)
             = [found |-> TRUE, config |-> config]
    /\ DOMAIN TABLE_REGISTRY = {config.processed_table_name : config \in accepted}
    /\ \A i \in 1..Len(MobilityClasses) :
         LET c == MobilityClasses[i] IN
         (ProcessedName(c) \in DOMAIN TABLE_REGISTRY
             /\ TABLE_REGISTRY[ProcessedName(c)] \notin ClashingConfigs)
           => TABLE_REGISTRY[ProcessedName(c)] = TableConfig(c)

\* what every register call does
C7_RegisterStep ==
    LET name == last_register'.name IN
    IF name \in DOMAIN TABLE_REGISTRY
    THEN /\ ~last_register'.ok
         /\ TABLE_REGISTRY' = TABLE_REGISTRY
         /\ accepted' = accepted
    ELSE /\ last_register'.ok
         /\ DOMAIN TABLE_REGISTRY' = DOMAIN TABLE_REGISTRY \cup {name}
         /\ \A other \in DOMAIN TABLE_REGISTRY :
              TABLE_REGISTRY'[other] = TABLE_REGISTRY[other]

\* C7: a register call whose processed_table_name is already registered
\* fails and leaves the registry unchanged, a call with a new name succeeds
\* and changes no other entry; every config registered successfully resolves
\* to itself, and each mobility class's name resolves to that class's own
\* config (the six names are pairwise distinct).
C7_RegisterOncePerName ==
    [](C7_RegistryState) /\ [][C7_RegisterStep]_vars

C7_Witness ==
    /\ \A i \in 1..Len(MobilityClasses) : TableConfig(MobilityClasses[i]) \in accepted
    /\ Cardinality(DOMAIN TABLE_REGISTRY) = 6
    /\ last_register = [name |-> "mobility", ok |-> FALSE]

----------------------------------------------------------------------------
(* C9 *)

Registered(c) ==
    /\ ProcessedName(c) \in DOMAIN TABLE_REGISTRY
    /\ TABLE_REGISTRY[ProcessedName(c)] \in accepted
    /\ TableConfig(c) \in accepted

Resolved(c) == Resolve(TABLE_REGISTRY, ProcessedName(c)).config

\* C9: once registered, MobilityBlackDownloader, MobilityAsianDownloader and
\* MobilityLatinoDownloader each resolve to the 6-entry crosswalk of
\* MobilityWhiteDownloader (same items, same order) under a different
\* processed and raw table name; MobilityBySexDownloader resolves to a
\* crosswalk other than MobilityDownloader's and to MobilityDownloader's raw
\* table id and universe.
C9_CrosswalkInherited ==
    /\ \A c \in {"MobilityBlackDownloader", "MobilityAsianDownloader",
                 "MobilityLatinoDownloader"} :
         (Registered(c) /\ Registered("MobilityWhiteDownloader")) =>
            LET child == Resolved(c)
                parent == Resolved("MobilityWhiteDownloader")
            IN /\ child.field_crosswalk = parent.field_crosswalk
               /\ Len(child.field_crosswalk) = 6
               /\ child.field_crosswalk[2] = <<"002E", "same_house">>
               /\ child.processed_table_name # parent.processed_table_name
               /\ child.raw_table_name # parent.raw_table_name
               /\ child.universe = parent.universe
    /\ (Registered("MobilityBySexDownloader") /\ Registered("MobilityDownloader")) =>
            LET child == Resolved("MobilityBySexDownloader")
                parent == Resolved("MobilityDownloader")
            IN /\ child.field_crosswalk # parent.field_crosswalk
               /\ Len(child.field_crosswalk) = 18
               /\ child.raw_table_name = "B07003"
               /\ child.raw_table_name = parent.raw_table_name
               /\ child.universe = parent.universe
               /\ child.processed_table_name # parent.processed_table_name

C9_Witness ==
    /\ \A i \in 1..Len(MobilityClasses) : Registered(MobilityClasses[i])
    /\ Resolved("MobilityBlackDownloader").raw_table_name = "B07004B"
    /\ Resolved("MobilityBlackDownloader").field_crosswalk
         = Resolved("MobilityWhiteDownloader").field_crosswalk
    /\ last_register.ok

----------------------------------------------------------------------------
(* C8 *)

\* C8: when __init__ has returned, data_dir, data_dir/raw and
\* data_dir/processed exist, and the directories that exist are those that
\* existed when it was entered plus these three; a construction that finds
\* all three existing does not fail creating directories and leaves the
\* set of directories as it was; the directories stay in place during
\* download_everything.
C8_DirectoriesCreatedIdempotently ==
    /\ pc = "ready" =>
         /\ DataDirs(data_dir) \subseteq fs
         /\ fs = fs0 \cup DataDirs(data_dir)
         /\ data_dir = BaseDir(data_dir_arg)
         /\ DataDirs(data_dir) \subseteq fs0 => fs = fs0
    /\ (InInit /\ error.about = "mkdir") =>
         ~(DataDirs(BaseDir(data_dir_arg)) \subseteq fs0)
    /\ InDownload => DataDirs(data_dir) \subseteq fs

C8_Witness ==
    /\ pc = "ready"
    /\ constructions = 2
    /\ data_dir = << <<"d">> >>
    /\ DataDirs(data_dir) \subseteq fs0
    /\ fs = fs0
    /\ JoinPath(THIS_DIR, Chars_data) \notin fs

----------------------------------------------------------------------------
(* C10 *)

\* C10: when a fetch raises during download_everything, the caller gets
\* that exception and the run is over: what has been invoked and fetched is
\* exactly the routines of the geographies before the failing one, the
\* failing geography's routine and its fetches for the years before the
\* failing one; nothing later is ever invoked.
C10_FetchErrorAbortsRun ==
    error.about = "fetch" =>
        /\ pc = "failed"
        /\ error.type \in FetchErrors
        /\ geo_i \in 1..Len(GEO_LIST)
        /\ year_i \in 1..Len(years_to_download)
        /\ error.name = GEO_LIST[geo_i]
        /\ log = ExpectedLog(SubSeq(GEO_LIST, 1, geo_i - 1), years_to_download)
                 \o <<CallEntry(GEO_LIST[geo_i])>>
                 \o [k \in 1..(year_i - 1) |->
                       FetchEntry(GEO_LIST[geo_i], years_to_download[k])]
        /\ ~ENABLED (EverythingStep \/ FetchYear \/ FetchYearFails \/ RoutineReturn)

C10_Witness ==
    /\ error.about = "fetch"
    /\ pc = "failed"
    /\ GEO_LIST = DefaultGeoList
    /\ geo_i = 3
    /\ year_i = 2
    /\ Len(years_to_download) = 2
    /\ Len(log) = 8

============================================================================
